---------------------------- MODULE Spec2Model ----------------------------
(***************************************************************************)
(* mv-with: batch renaming of files through an editable list of paths.     *)
(*                                                                         *)
(* The module models src/src/internals.rs: FileList (a text buffer and the *)
(* path slices into it), RenameRequest (two aligned FileLists) and the     *)
(* file system calls they make (exists, canonicalize, rename).             *)
(*                                                                         *)
(* Text is a sequence of one-character strings.  A path slice (&Utf8Path)  *)
(* is a pointer into the buffer and a length.  The file system is a        *)
(* function from canonical paths (sequences of names) to nodes; the        *)
(* working directory is the root directory.                                *)
(***************************************************************************)
EXTENDS Integers, Sequences, FiniteSets, TLC

VARIABLES
    fs,        \* the file system: canonical path -> [kind, id]
    fs0,       \* the file system when the program started
    stage,     \* where the run is (see Stages)
    origin,    \* FileList of the paths on disk, or None
    target,    \* FileList of the edited paths, or None
    source,    \* the text the last parse read, until the next operation
    tmp,       \* text written to the editable temporary file
    request,   \* RenameRequest, or None
    idx,       \* rename: index of the next pair of the loop
    done,      \* rename: the pairs attempted so far, with their outcome
    result,    \* the value the last operation returned
    op,        \* the last operation performed
    sorted,    \* origin has been ordered by sort_by_file_depth
    stdout     \* the lines print_diffs has written, or None

vars == << fs, fs0, stage, origin, target, source, tmp, request, idx, done,
           result, op, sorted, stdout >>

None == [none |-> TRUE]

-----------------------------------------------------------------------------
(* Bounds *)

\* Largest number of lines of a text made of path lines
MaxLines == 2
\* Largest length of a text made of arbitrary characters
MaxLen == 3

-----------------------------------------------------------------------------
(* Text *)

\* char::is_whitespace, on the characters of the model
IsWhitespace(c) == c \in {" ", "\n", "\r"}

\* s[from..to] of Rust: 0-based, `to` exclusive
Slice(s, from, to) == SubSeq(s, from + 1, to)

\* str::trim_end().len()
RECURSIVE TrimEndLen(_)
TrimEndLen(s) ==
    IF s = << >> THEN 0
    ELSE IF IsWhitespace(s[Len(s)]) THEN TrimEndLen(SubSeq(s, 1, Len(s) - 1))
    ELSE Len(s)

\* str::trim().is_empty()
TrimIsEmpty(s) == \A i \in 1..Len(s) : IsWhitespace(s[i])

\* str::lines(): split_inclusive('\n'), then each piece loses its "\n" and,
\* if it had one, the "\r" before it.  Each line is [start, len]: the
\* 0-based offset of the line in s and its length.
RECURSIVE LinesFrom(_, _, _, _)
LinesFrom(s, from, i, acc) ==
    IF i > Len(s)
    THEN IF from < Len(s)
         THEN Append(acc, [start |-> from, len |-> Len(s) - from])
         ELSE acc
    ELSE IF s[i] = "\n"
         THEN LET end == IF i - 1 > from /\ s[i - 1] = "\r" THEN i - 2 ELSE i - 1
              IN  LinesFrom(s, i, i + 1,
                            Append(acc, [start |-> from, len |-> end - from]))
         ELSE LinesFrom(s, from, i + 1, acc)

lines(s) == LinesFrom(s, 0, 1, << >>)

\* [String]::join(sep)
RECURSIVE join(_, _)
join(strs, sep) ==
    IF strs = << >> THEN << >>
    ELSE IF Len(strs) = 1 THEN strs[1]
    ELSE strs[1] \o sep \o join(Tail(strs), sep)

-----------------------------------------------------------------------------
(* Paths *)

\* The pieces of s between "/": Utf8Path::components before normalisation
RECURSIVE SplitSlash(_, _, _)
SplitSlash(s, i, cur) ==
    IF i > Len(s) THEN << cur >>
    ELSE IF s[i] = "/" THEN << cur >> \o SplitSlash(s, i + 1, << >>)
    ELSE SplitSlash(s, i + 1, Append(cur, s[i]))

RECURSIVE DropEmptyAndDot(_, _)
DropEmptyAndDot(parts, first) ==
    IF parts = << >> THEN << >>
    ELSE LET p == Head(parts)
             rest == DropEmptyAndDot(Tail(parts), FALSE)
         IN  IF p = << >> THEN rest
             ELSE IF p = << "." >> /\ ~first THEN rest
             ELSE << p >> \o rest

HasRoot(s) == s # << >> /\ s[1] = "/"

\* Path::components(): RootDir when the path starts with "/", CurDir only
\* for a leading ".", no empty component, no other "."
Components(s) ==
    (IF HasRoot(s) THEN << << "/" >> >> ELSE << >>)
        \o DropEmptyAndDot(SplitSlash(s, 1, << >>), ~HasRoot(s))

\* Utf8Path == Utf8Path: the components are compared, not the text
PathEq(s, t) == Components(s) = Components(t)


-----------------------------------------------------------------------------
(* The file system.  A canonical path is a sequence of names, the root     *)
(* directory (which is also the working directory) is << >>, and fs maps   *)
(* every other existing path to [kind, id]: id names the file's content,   *)
(* so a file that is moved keeps it and a file that is replaced loses it.  *)

Exists(f, p) == p = << >> \/ p \in DOMAIN f
IsDir(f, p) == p = << >> \/ (p \in DOMAIN f /\ f[p].kind = "dir")
IsPrefix(p, q) == Len(p) <= Len(q) /\ SubSeq(q, 1, Len(p)) = p
Parent(p) == IF p = << >> THEN << >> ELSE SubSeq(p, 1, Len(p) - 1)

\* Path resolution from directory cur over the pieces of a path: every
\* piece is looked up in a directory, an empty piece and "." stay there
\* and ".." goes up.  [err, path]: err is "" when every piece resolved.
RECURSIVE WalkPieces(_, _, _)
WalkPieces(f, cur, pieces) ==
    IF pieces = << >> THEN [err |-> "", path |-> cur]
    ELSE IF ~Exists(f, cur) THEN [err |-> "ENOENT", path |-> cur]
    ELSE IF ~IsDir(f, cur) THEN [err |-> "ENOTDIR", path |-> cur]
    ELSE LET p == Head(pieces)
         IN  IF p = << >> \/ p = << "." >>
             THEN WalkPieces(f, cur, Tail(pieces))
             ELSE IF p = << ".", "." >>
             THEN WalkPieces(f, Parent(cur), Tail(pieces))
             ELSE WalkPieces(f, Append(cur, p), Tail(pieces))

\* The file a path names, as stat(2) finds it
Resolve(f, s) ==
    IF s = << >> THEN [err |-> "ENOENT", path |-> << >>]
    ELSE LET r == WalkPieces(f, << >>, SplitSlash(s, 1, << >>))
         IN  IF r.err = "" /\ ~Exists(f, r.path)
             THEN [err |-> "ENOENT", path |-> r.path]
             ELSE r

\* Utf8Path::exists
exists(f, s) == Resolve(f, s).err = ""

\* std::fs::canonicalize(path).components().count(): the root directory
\* and one component per name
CanonicalCount(f, s) == 1 + Len(Resolve(f, s).path)

RECURSIVE StripTrailingEmpty(_)
StripTrailingEmpty(pieces) ==
    IF pieces # << >> /\ pieces[Len(pieces)] = << >>
    THEN StripTrailingEmpty(SubSeq(pieces, 1, Len(pieces) - 1))
    ELSE pieces

\* The place a new name would take: its directory must exist, the name
\* itself need not.  slash: the text ended with "/".
ResolveNew(f, s) ==
    LET all == SplitSlash(s, 1, << >>)
        pieces == StripTrailingEmpty(all)
        slash == Len(pieces) < Len(all)
    IN  IF s = << >> THEN [err |-> "ENOENT", path |-> << >>, slash |-> FALSE]
        ELSE IF pieces = << >>
        THEN [err |-> "EBUSY", path |-> << >>, slash |-> slash]
        ELSE LET last == pieces[Len(pieces)]
                 dir == WalkPieces(f, << >>, SubSeq(pieces, 1, Len(pieces) - 1))
             IN  IF last = << "." >> \/ last = << ".", "." >>
                 THEN [err |-> "EINVAL", path |-> << >>, slash |-> slash]
                 ELSE IF dir.err # ""
                 THEN [err |-> dir.err, path |-> dir.path, slash |-> slash]
                 ELSE IF ~Exists(f, dir.path)
                 THEN [err |-> "ENOENT", path |-> dir.path, slash |-> slash]
                 ELSE IF ~IsDir(f, dir.path)
                 THEN [err |-> "ENOTDIR", path |-> dir.path, slash |-> slash]
                 ELSE [err |-> "", path |-> Append(dir.path, last),
                       slash |-> slash]

HasChildren(f, p) == \E q \in DOMAIN f : q # p /\ IsPrefix(p, q)

\* The file system after the tree at `from` has moved to `to`, replacing
\* what was there
Moved(f, from, to) ==
    LET stay == { q \in DOMAIN f : ~IsPrefix(from, q) /\ q # to }
        go == { q \in DOMAIN f : IsPrefix(from, q) }
        dest(q) == to \o SubSeq(q, Len(from) + 1, Len(q))
    IN  [ q \in stay \cup { dest(g) : g \in go } |->
            IF \E g \in go : dest(g) = q
            THEN f[CHOOSE g \in go : dest(g) = q]
            ELSE f[q] ]

\* std::fs::rename, which is rename(2): "replacing the original file if
\* `to` already exists".  [err, fs]: err is "" and fs the new file system
\* when the rename was done, else err is the error and fs is unchanged.
FsRename(f, old, new) ==
    LET o == Resolve(f, old)
        n == ResolveNew(f, new)
        fail(e) == [err |-> e, fs |-> f]
    IN  IF o.err # "" THEN fail(o.err)
        ELSE IF o.path = << >> THEN fail("EBUSY")
        ELSE IF n.err # "" THEN fail(n.err)
        ELSE IF n.path = o.path THEN [err |-> "", fs |-> f]
        ELSE IF f[o.path].kind = "dir"
        THEN IF IsPrefix(o.path, n.path) THEN fail("EINVAL")
             ELSE IF Exists(f, n.path) /\ ~IsDir(f, n.path) THEN fail("ENOTDIR")
             ELSE IF Exists(f, n.path) /\ HasChildren(f, n.path)
             THEN fail("ENOTEMPTY")
             ELSE [err |-> "", fs |-> Moved(f, o.path, n.path)]
        ELSE IF n.slash THEN fail("ENOTDIR")
             ELSE IF IsDir(f, n.path) THEN fail("EISDIR")
             ELSE [err |-> "", fs |-> Moved(f, o.path, n.path)]

-----------------------------------------------------------------------------
(* FileList: SharedPaths, a buffer (owner) and the path slices into it     *)
(* (dependent).  A slice is the address of its first byte and its length.  *)

\* String::as_ptr of the origin's and of the target's buffer
OriginBase == 1000
TargetBase == 2000

\* the text of a path slice
PathText(list, e) ==
    Slice(list.owner, e.ptr - list.base, e.ptr - list.base + e.len)

Paths(list) == [ k \in 1..Len(list.dependent) |-> PathText(list, list.dependent[k]) ]

\* The place of a slice found by its text: the first place in the buffer
\* where that text stands
substring_range_by_find(list, e) ==
    LET text == PathText(list, e)
        start == CHOOSE a \in 0..Len(list.owner) :
                    /\ Slice(list.owner, a, a + e.len) = text
                    /\ \A b \in 0..(a - 1) :
                          Slice(list.owner, b, b + e.len) # text
    IN  [start |-> start, end |-> start + e.len]

substring_range(list, e) ==
    LET start == e.ptr - list.base
    IN  [start |-> start, end |-> start + e.len]

from_string(string, base) ==
    LET ls == lines(string)
    IN  [ owner |-> string,
          base |-> base,
          dependent |-> [ k \in 1..Len(ls) |->
                            [ptr |-> base + ls[k].start, len |-> ls[k].len] ] ]

parse_reader(text, base) ==
    LET buf == SubSeq(text, 1, TrimEndLen(text))
    IN  IF TrimIsEmpty(buf)
        THEN [tag |-> "EmptyStdIn", buffer |-> buf]
        ELSE [tag |-> "Ok", list |-> from_string(buf, base)]

\* skip(1): the walk's first entry is the directory itself
parse_walker(walker, base) ==
    LET filenames == Tail(walker)
        buf == join(filenames, << "\n" >>)
    IN  IF TrimIsEmpty(buf)
        THEN [tag |-> "EmptyDirectory", buffer |-> buf]
        ELSE [tag |-> "Ok", list |-> from_string(buf, base)]

confirm_files_exist(list, f) ==
    LET missing == SelectSeq(list.dependent,
                             LAMBDA e : ~exists(f, PathText(list, e)))
        labels == [ k \in 1..Len(missing) |->
                      [ range |-> substring_range(list, missing[k]),
                        message |-> "File does not exist" ] ]
    IN  IF labels = << >>
        THEN [tag |-> "Ok", list |-> list]
        ELSE [tag |-> "FileDoesNotExist", buffer |-> list.owner,
              labels |-> labels]

\* usize::MAX, as far as the sort key needs it: larger than every count
UsizeMax == 1000000

\* The key without the subtraction from usize::MAX: shallowest first
SortKeyAscending(list, f, e) == CanonicalCount(f, PathText(list, e))

SortKey(list, f, e) == UsizeMax - CanonicalCount(f, PathText(list, e))

\* slice::sort_by_key is stable: an element goes behind the elements whose
\* key is not larger
RECURSIVE InsertByKey(_, _, _, _)
InsertByKey(list, f, acc, e) ==
    IF acc = << >> THEN << e >>
    ELSE IF SortKey(list, f, acc[Len(acc)]) <= SortKey(list, f, e)
    THEN Append(acc, e)
    ELSE Append(InsertByKey(list, f, SubSeq(acc, 1, Len(acc) - 1), e),
                acc[Len(acc)])

RECURSIVE SortByKey(_, _, _, _)
SortByKey(list, f, acc, rest) ==
    IF rest = << >> THEN acc
    ELSE SortByKey(list, f, InsertByKey(list, f, acc, Head(rest)), Tail(rest))

\* [tag |-> "Ok", list] or, when canonicalize fails, the panic of expect
sort_by_file_depth(list, f) ==
    IF \E k \in 1..Len(list.dependent) :
            ~exists(f, PathText(list, list.dependent[k]))
    THEN [tag |-> "panic"]
    ELSE [tag |-> "Ok",
          list |-> [list EXCEPT
                      !.dependent = SortByKey(list, f, << >>, list.dependent)]]

RECURSIVE PushAll(_, _)
PushAll(list, k) ==
    IF k > Len(list.dependent) THEN << >>
    ELSE PathText(list, list.dependent[k]) \o << "\n" >> \o PushAll(list, k + 1)

\* every path followed by "\n", and the last "\n" popped
as_string(list) ==
    LET buf == PushAll(list, 1)
    IN  SubSeq(buf, 1, Len(buf) - 1)

-----------------------------------------------------------------------------
(* RenameRequest *)

\* new with `any` for `all`: unchanged as soon as one pair is
new_any_equal(o, t) ==
    LET origin_len == Len(o.dependent)
        target_len == Len(t.dependent)
    IN  IF target_len = origin_len
        THEN IF \E k \in 1..origin_len :
                    PathEq(PathText(o, o.dependent[k]), PathText(t, t.dependent[k]))
             THEN [tag |-> "FileUnchanged", buffer |-> t.owner]
             ELSE [tag |-> "Ok", request |-> [origin |-> o, target |-> t]]
        ELSE IF target_len < origin_len
        THEN [tag |-> "TooFewLines", buffer |-> t.owner, end |-> Len(t.owner)]
        ELSE IF origin_len = 0 THEN [tag |-> "panic"]
        ELSE LET start == substring_range(t, t.dependent[origin_len]).end + 1
                 end == Len(t.owner)
             IN  [tag |-> "TooManyLines", buffer |-> t.owner,
                  range |-> [start |-> start, end |-> end]]

new(o, t) ==
    LET origin_len == Len(o.dependent)
        target_len == Len(t.dependent)
    IN  IF target_len = origin_len
        THEN IF \A k \in 1..origin_len :
                    PathEq(PathText(o, o.dependent[k]), PathText(t, t.dependent[k]))
             THEN [tag |-> "FileUnchanged", buffer |-> t.owner]
             ELSE [tag |-> "Ok", request |-> [origin |-> o, target |-> t]]
        ELSE IF target_len < origin_len
        THEN [tag |-> "TooFewLines", buffer |-> t.owner, end |-> Len(t.owner)]
        ELSE IF origin_len = 0 THEN [tag |-> "panic"]
        ELSE LET start == substring_range(t, t.dependent[origin_len]).end + 1
                 end == Len(t.owner)
             IN  [tag |-> "TooManyLines", buffer |-> t.owner,
                  range |-> [start |-> start, end |-> end]]

\* dissimilar: the number of characters two texts share at their start
common_prefix(text1, text2) ==
    LET m == IF Len(text1) < Len(text2) THEN Len(text1) ELSE Len(text2)
    IN  CHOOSE k \in 0..m :
            /\ SubSeq(text1, 1, k) = SubSeq(text2, 1, k)
            /\ k < m => text1[k + 1] # text2[k + 1]

\* ... and at their end
common_suffix(text1, text2) ==
    LET m == IF Len(text1) < Len(text2) THEN Len(text1) ELSE Len(text2)
    IN  CHOOSE k \in 0..m :
            /\ SubSeq(text1, Len(text1) - k + 1, Len(text1))
                  = SubSeq(text2, Len(text2) - k + 1, Len(text2))
            /\ k < m => text1[Len(text1) - k] # text2[Len(text2) - k]

Chunk(tag, text) == [tag |-> tag, text |-> text]

\* str::find: the 0-based place of the first occurrence of short in long,
\* or -1
find(long, short) ==
    LET places == { a \in 0..(Len(long) - Len(short)) :
                        Slice(long, a, a + Len(short)) = short }
    IN  IF places = {} THEN -1
        ELSE CHOOSE a \in places : \A b \in places : a <= b

\* dissimilar's compute, on texts with no common start and no common end:
\* nothing for two empty texts, one Insert or one Delete when one text is
\* empty, the shorter text kept between two edits when the longer one holds
\* it, and else edits of both texts.  The last case is written as one
\* Delete and one Insert; the bisection may cut them into more chunks, and
\* never into fewer than two.
compute(text1, text2) ==
    IF text1 = << >> /\ text2 = << >> THEN << >>
    ELSE IF text1 = << >> THEN << Chunk("Insert", text2) >>
    ELSE IF text2 = << >> THEN << Chunk("Delete", text1) >>
    ELSE LET longer1 == Len(text1) > Len(text2)
             long == IF longer1 THEN text1 ELSE text2
             short == IF longer1 THEN text2 ELSE text1
             edit == IF longer1 THEN "Delete" ELSE "Insert"
             i == find(long, short)
         IN  IF i # -1
             THEN << Chunk(edit, Slice(long, 0, i)),
                     Chunk("Equal", short),
                     Chunk(edit, Slice(long, i + Len(short), Len(long))) >>
             ELSE << Chunk("Delete", text1), Chunk("Insert", text2) >>

\* dissimilar::diff: the common start and the common end are Equal chunks
\* around the chunks of the middle
diff(text1, text2) ==
    LET p == common_prefix(text1, text2)
        rest1 == SubSeq(text1, p + 1, Len(text1))
        rest2 == SubSeq(text2, p + 1, Len(text2))
        q == common_suffix(rest1, rest2)
        mid1 == SubSeq(rest1, 1, Len(rest1) - q)
        mid2 == SubSeq(rest2, 1, Len(rest2) - q)
    IN  (IF p > 0 THEN << Chunk("Equal", SubSeq(text1, 1, p)) >> ELSE << >>)
        \o compute(mid1, mid2)
        \o (IF q > 0
            THEN << Chunk("Equal", SubSeq(rest1, Len(rest1) - q + 1, Len(rest1))) >>
            ELSE << >>)

RECURSIVE diff_len(_)
diff_len(chunk_vec) ==
    IF chunk_vec = << >> THEN 0
    ELSE Len(Head(chunk_vec).text) + diff_len(Tail(chunk_vec))

\* The line print_diffs writes for a pair whose only chunk is Equal
print_line_equal_only(before, after) ==
    LET chunk_vec == diff(before, after)
        padding == IF 65 - diff_len(chunk_vec) > 0
                   THEN 65 - diff_len(chunk_vec) ELSE 0
    IN  IF Len(chunk_vec) = 1 /\ chunk_vec[1].tag = "Equal"
        THEN [ chunks |-> chunk_vec, padding |-> padding,
               comment |-> "(ignore)" ]
        ELSE [ chunks |-> chunk_vec, padding |-> padding,
               comment |-> "(rename)" ]

\* print_diffs, the line of one pair: a lone Equal or a lone Delete is
\* written dimmed with "(ignore)", any other diff chunk by chunk with
\* "(rename)"
print_line(before, after) ==
    LET chunk_vec == diff(before, after)
        padding == IF 65 - diff_len(chunk_vec) > 0
                   THEN 65 - diff_len(chunk_vec) ELSE 0
    IN  IF Len(chunk_vec) = 1 /\ chunk_vec[1].tag \in { "Equal", "Delete" }
        THEN [ chunks |-> chunk_vec, padding |-> padding,
               comment |-> "(ignore)" ]
        ELSE [ chunks |-> chunk_vec, padding |-> padding,
               comment |-> "(rename)" ]

\* print_diffs: a line for every pair of the zipped lists, in their order
print_diffs(req) ==
    LET n == IF Len(req.origin.dependent) < Len(req.target.dependent)
             THEN Len(req.origin.dependent) ELSE Len(req.target.dependent)
    IN  [ k \in 1..n |->
            print_line(PathText(req.origin, req.origin.dependent[k]),
                       PathText(req.target, req.target.dependent[k])) ]

\* A turn of rename that drops the error of a pair and goes on to the next
rename_turn_go_on(req, i, f) ==
    IF i > Len(req.origin.dependent) \/ i > Len(req.target.dependent)
    THEN [ returned |-> TRUE, result |-> [tag |-> "Ok"], fs |-> f, idx |-> i,
           attempted |-> << >> ]
    ELSE LET before == PathText(req.origin, req.origin.dependent[i])
             after == PathText(req.target, req.target.dependent[i])
             r == FsRename(f, before, after)
         IN  [ returned |-> FALSE, result |-> None, fs |-> r.fs,
               idx |-> i + 1, attempted |-> << r.err >> ]

\* rename, one turn of its loop over the zipped lists: at pair i of the
\* request with the file system f.  returned: the function returned result.
rename_turn(req, i, f) ==
    IF i > Len(req.origin.dependent) \/ i > Len(req.target.dependent)
    THEN [ returned |-> TRUE, result |-> [tag |-> "Ok"], fs |-> f, idx |-> i,
           attempted |-> << >> ]
    ELSE LET before == PathText(req.origin, req.origin.dependent[i])
             after == PathText(req.target, req.target.dependent[i])
             r == FsRename(f, before, after)
         IN  IF r.err # ""
             THEN [ returned |-> TRUE,
                    result |-> [ tag |-> "CannotRenameFile", before |-> before,
                                 after |-> after, message |-> r.err ],
                    fs |-> r.fs, idx |-> i, attempted |-> << r.err >> ]
             ELSE [ returned |-> FALSE, result |-> None, fs |-> r.fs,
                    idx |-> i + 1, attempted |-> << r.err >> ]

-----------------------------------------------------------------------------
(* The directory walk (ignore::Walk over "./") *)

\* "./" and the names of p joined by "/"
WalkPath(p) == << ".", "/" >> \o join(p, << "/" >>)

\* The entries below dir, a directory before what it holds; ord is the
\* order in which a directory lists its names
RECURSIVE WalkDir(_, _, _, _)
WalkDir(f, dir, ord, rest) ==
    IF rest = << >> THEN << >>
    ELSE LET p == Append(dir, Head(rest))
         IN  (IF p \in DOMAIN f
              THEN << WalkPath(p) >>
                      \o (IF f[p].kind = "dir" THEN WalkDir(f, p, ord, ord)
                          ELSE << >>)
              ELSE << >>)
             \o WalkDir(f, dir, ord, Tail(rest))

\* The walk yields the directory itself first
Walk(f, ord) == << << ".", "/" >> >> \o WalkDir(f, << >>, ord, ord)

NamesOf(f) == { q[Len(q)] : q \in DOMAIN f }

Orders(S) ==
    { o \in [1..Cardinality(S) -> S] :
        \A i, j \in 1..Cardinality(S) : o[i] = o[j] => i = j }

-----------------------------------------------------------------------------
(* Inputs *)

\* A tree: a set of << path, kind >>
TreeFs(tree) ==
    [ p \in { n[1] : n \in tree } |->
        [ kind |-> (CHOOSE n \in tree : n[1] = p)[2], id |-> p ] ]

\* What a name of the working directory can be: nothing, a file, a
\* directory, a directory holding a file or a directory
Below(name) ==
    LET child == << name, << "a" >> >>
    IN  { {},
          { << << name >>, "file" >> },
          { << << name >>, "dir" >> },
          { << << name >>, "dir" >>, << child, "file" >> },
          { << << name >>, "dir" >>, << child, "dir" >> } }

Flat(name) ==
    { {}, { << << name >>, "file" >> }, { << << name >>, "dir" >> } }

\* The file systems of the renaming runs: a, and what it may hold, and b
PathTrees == { TreeFs(x \cup y) : x \in Below(<< "a" >>), y \in Flat(<< "b" >>) }

\* The lines of their texts
PathLines ==
    { << "a" >>, << "b" >>, << "a", "/", "a" >>, << "b", "/", "a" >>, << >> }

PathTexts ==
    { join(ls, << "\n" >>) :
        ls \in UNION { [1..n -> PathLines] : n \in 0..MaxLines } }

\* The file systems of the runs on arbitrary text: a file whose name is a
\* blank, and a directory holding a file
RawTrees ==
    { TreeFs({}),
      TreeFs({ << << << "a" >> >>, "file" >> }),
      TreeFs({ << << << "a" >> >>, "dir" >>,
               << << << "a" >>, << "a" >> >>, "file" >>,
               << << << " " >> >>, "file" >> }) }

RawAlphabet == { "a", "/", " ", "\n", "\r" }

RawTexts == UNION { [1..n -> RawAlphabet] : n \in 0..MaxLen }

-----------------------------------------------------------------------------
(* The run.  The program that drives FileList and RenameRequest is the     *)
(* pipeline: parse, existence check, depth sort, serialise to the editable *)
(* file, edit, parse the edited text, new, rename.                         *)

Stages ==
    { "start", "parsed", "confirmed", "written", "edited", "validated",
      "applied", "failed", "error", "panic" }

InitWith(trees) ==
    /\ fs \in trees
    /\ fs0 = fs
    /\ stage = "start"
    /\ origin = None
    /\ target = None
    /\ source = None
    /\ tmp = None
    /\ request = None
    /\ idx = 0
    /\ done = << >>
    /\ result = None
    /\ op = "init"
    /\ sorted = FALSE
    /\ stdout = None

\* What `result` keeps of a returned value: an Ok without the list or the
\* request it holds (they go to origin, target and request), an error whole
Returned(r) == IF r.tag = "Ok" THEN [tag |-> "Ok"] ELSE r

\* A parse of the origin returned r
OriginParsed(r, name, text) ==
    /\ result' = Returned(r)
    /\ source' = text
    /\ op' = name
    /\ IF r.tag = "Ok"
       THEN origin' = r.list /\ stage' = "parsed"
       ELSE origin' = None /\ stage' = "error"
    /\ UNCHANGED << stdout, fs, fs0, target, tmp, request, idx, done, sorted >>

WalkerOrigin ==
    /\ stage = "start"
    /\ \E ord \in Orders(NamesOf(fs)) :
          OriginParsed(parse_walker(Walk(fs, ord), OriginBase),
                       "parse_walker", join(Tail(Walk(fs, ord)), << "\n" >>))

\* The standard input holds one of `texts`
ReaderOrigin(texts) ==
    /\ stage = "start"
    /\ \E text \in texts :
          OriginParsed(parse_reader(text, OriginBase), "parse_reader", text)

ConfirmFilesExist ==
    /\ stage = "parsed"
    /\ LET r == confirm_files_exist(origin, fs)
       IN  /\ result' = Returned(r)
           /\ IF r.tag = "Ok"
              THEN origin' = r.list /\ stage' = "confirmed"
              ELSE origin' = None /\ stage' = "error"
    /\ op' = "confirm_files_exist"
    /\ source' = None
    /\ UNCHANGED << stdout, fs, fs0, target, tmp, request, idx, done, sorted >>

\* The origin is ordered once: before it is serialised, or after the edited
\* text was read and before the lists are paired
SortByFileDepth ==
    /\ stage \in { "confirmed", "edited" }
    /\ ~sorted
    /\ LET r == sort_by_file_depth(origin, fs)
       IN  /\ result' = Returned(r)
           /\ IF r.tag = "Ok"
              THEN origin' = r.list /\ stage' = stage
              ELSE origin' = None /\ stage' = "panic"
    /\ op' = "sort_by_file_depth"
    /\ sorted' = TRUE
    /\ source' = None
    /\ UNCHANGED << stdout, fs, fs0, target, tmp, request, idx, done >>

WriteTempFile ==
    /\ stage = "confirmed"
    /\ tmp' = as_string(origin)
    /\ stage' = "written"
    /\ op' = "as_string"
    /\ result' = None
    /\ UNCHANGED << stdout, fs, fs0, origin, target, source, request, idx, done,
                    sorted >>

\* The editor left one of `texts` in the temporary file
ReaderTarget(texts) ==
    /\ stage = "written"
    /\ \E text \in texts :
          LET r == parse_reader(text, TargetBase)
          IN  /\ result' = Returned(r)
              /\ source' = text
              /\ IF r.tag = "Ok"
                 THEN target' = r.list /\ stage' = "edited"
                 ELSE target' = None /\ stage' = "error"
    /\ op' = "parse_reader"
    /\ UNCHANGED << stdout, fs, fs0, origin, tmp, request, idx, done, sorted >>

New ==
    /\ stage = "edited"
    /\ LET r == new(origin, target)
       IN  /\ result' = Returned(r)
           /\ IF r.tag = "Ok"
              THEN request' = r.request /\ stage' = "validated"
              ELSE request' = None
                   /\ stage' = (IF r.tag = "panic" THEN "panic" ELSE "error")
    /\ origin' = None
    /\ target' = None
    /\ idx' = 1
    /\ op' = "new"
    /\ source' = None
    /\ UNCHANGED << stdout, fs, fs0, tmp, done, sorted >>

\* The preview, before the renames
PrintDiffs ==
    /\ stage = "validated"
    /\ idx = 1
    /\ stdout' = print_diffs(request)
    /\ op' = "print_diffs"
    /\ result' = None
    /\ UNCHANGED << fs, fs0, stage, origin, target, source, tmp, request, idx,
                    done, sorted >>

\* One turn of the loop of rename: the pair at idx, or the return of Ok
\* once the pairs are exhausted
Rename ==
    /\ stage = "validated"
    /\ op' = "rename"
    /\ LET t == rename_turn(request, idx, fs)
       IN  /\ fs' = t.fs
           /\ done' = done \o t.attempted
           /\ result' = t.result
           /\ idx' = t.idx
           /\ stage' = IF t.returned
                       THEN IF t.result.tag = "Ok" THEN "applied" ELSE "failed"
                       ELSE stage
    /\ UNCHANGED << stdout, fs0, origin, target, source, tmp, request, sorted >>

Init == InitWith(PathTrees)

Next ==
    \/ WalkerOrigin
    \/ ReaderOrigin(PathTexts)
    \/ ConfirmFilesExist
    \/ SortByFileDepth
    \/ WriteTempFile
    \/ ReaderTarget(PathTexts)
    \/ New
    \/ PrintDiffs
    \/ Rename

Spec == Init /\ [][Next]_vars

\* The same run on arbitrary text
InitText == InitWith(RawTrees)

NextText ==
    \/ WalkerOrigin
    \/ ReaderOrigin(RawTexts)
    \/ ConfirmFilesExist
    \/ SortByFileDepth
    \/ WriteTempFile
    \/ ReaderTarget(RawTexts)
    \/ New
    \/ PrintDiffs
    \/ Rename

SpecText == InitText /\ [][NextText]_vars

-----------------------------------------------------------------------------
(* Claims *)

\* The pairs of a request, as texts
OriginPath(req, i) == PathText(req.origin, req.origin.dependent[i])
TargetPath(req, i) == PathText(req.target, req.target.dependent[i])
PairCount(req) == Len(req.origin.dependent)

\* The file system after the first k pairs of req were renamed, in order
RECURSIVE RenamedThrough(_, _, _)
RenamedThrough(f, req, k) ==
    IF k = 0 THEN f
    ELSE FsRename(RenamedThrough(f, req, k - 1),
                  OriginPath(req, k), TargetPath(req, k)).fs

\* C1: rename takes the pairs origin[i] -> target[i] in list order and stops
\* at the first pair whose rename fails: the pairs before it stay renamed,
\* no pair after it is attempted, and the error holds that pair and the
\* text of the OS error; it returns Ok only when every pair was renamed.
C1_RenameStopsAtFirstFailure ==
    stage \in { "validated", "applied", "failed" } =>
        LET n == PairCount(request)
            k == Len(done)
        IN  /\ k <= n
            /\ \A j \in 1..k :
                  done[j] = FsRename(RenamedThrough(fs0, request, j - 1),
                                     OriginPath(request, j),
                                     TargetPath(request, j)).err
            /\ \A j \in 1..(k - 1) : done[j] = ""
            /\ stage = "validated" => k = idx - 1 /\ \A j \in 1..k : done[j] = ""
            /\ stage = "failed" =>
                  /\ done[k] # ""
                  /\ fs = RenamedThrough(fs0, request, k - 1)
                  /\ result = [ tag |-> "CannotRenameFile",
                                before |-> OriginPath(request, k),
                                after |-> TargetPath(request, k),
                                message |-> done[k] ]
            /\ stage = "applied" =>
                  /\ result = [tag |-> "Ok"]
                  /\ k = n
                  /\ \A j \in 1..n : done[j] = ""
                  /\ fs = RenamedThrough(fs0, request, n)

\* The first pair was renamed and stays so, the second failed
C1_Witness ==
    /\ stage = "failed"
    /\ Len(done) = 2
    /\ PairCount(request) = 2
    /\ fs # fs0

\* C2: with the origin checked by confirm_files_exist and ordered by
\* sort_by_file_depth, every origin path exists when its own rename is
\* attempted.
C2_OriginExistsWhenRenamed ==
    (stage = "validated" /\ sorted /\ idx <= PairCount(request)) =>
        exists(fs, OriginPath(request, idx))

\* C10: rename destroys no file: every file of the start is still there,
\* under some path, with its content.
C10_NoFileDestroyed ==
    \A p \in DOMAIN fs0 :
        fs0[p].kind = "file" =>
            \E q \in DOMAIN fs : fs[q].kind = "file" /\ fs[q].id = fs0[p].id

\* The entries of a list are in the order of their lines in the buffer
InBufferOrder(list) ==
    \A i, j \in 1..Len(list.dependent) :
        i < j => list.dependent[i].ptr < list.dependent[j].ptr

\* C3: ordering the origin by depth applies the same permutation to the
\* target, so the ordering leaves every origin entry paired with the target
\* entry it was paired with before.
C3_OrderingKeepsPairs ==
    [][ ( /\ op' = "sort_by_file_depth"
          /\ stage = "edited" /\ stage' = "edited"
          /\ Len(origin.dependent) = Len(target.dependent) )
        => \A i \in 1..Len(origin.dependent) :
              \E j \in 1..Len(origin.dependent) :
                  /\ origin'.dependent[j] = origin.dependent[i]
                  /\ target'.dependent[j] = target.dependent[i] ]_vars

\* The place of entry e in a list
PlaceOf(list, e) == CHOOSE k \in 1..Len(list.dependent) : list.dependent[k] = e

CanonicalPath(f, list, e) == Resolve(f, PathText(list, e)).path

\* C4: sort_by_file_depth leaves the buffer as it is and permutes the
\* entries into decreasing canonical depth, entries of equal depth in their
\* former order; so an entry below another comes before it.
C4_SortedByDecreasingDepth ==
    [][ (op' = "sort_by_file_depth" /\ result'.tag = "Ok") =>
          LET old == origin.dependent
              now == origin'.dependent
              depth(e) == CanonicalCount(fs, PathText(origin, e))
          IN  /\ origin'.owner = origin.owner
              /\ origin'.base = origin.base
              /\ Len(now) = Len(old)
              /\ \A i \in 1..Len(old) : \E j \in 1..Len(now) : now[j] = old[i]
              /\ \A i, j \in 1..Len(now) :
                    i < j =>
                      /\ depth(now[i]) >= depth(now[j])
                      /\ depth(now[i]) = depth(now[j])
                            => PlaceOf(origin, now[i]) < PlaceOf(origin, now[j])
              /\ \A i, j \in 1..Len(now) :
                    LET below == CanonicalPath(fs, origin, now[i])
                        above == CanonicalPath(fs, origin, now[j])
                    IN  (IsPrefix(above, below) /\ above # below) => i < j
      ]_vars

\* The sort moved a deeper entry in front of the entry it followed
C4_Witness ==
    /\ op = "sort_by_file_depth"
    /\ result.tag = "Ok"
    /\ ~InBufferOrder(origin)

\* C5: new returns TooFewLines iff the target has fewer entries than the
\* origin, TooManyLines iff it has more, FileUnchanged iff the counts are
\* equal and every origin[i] equals target[i], and Ok, holding both lists
\* as they were, iff the counts are equal and some pair differs.
C5_NewOutcome ==
    [][ op' = "new" =>
          LET o == Len(origin.dependent)
              t == Len(target.dependent)
              same == \A i \in 1..o :
                          PathEq(PathText(origin, origin.dependent[i]),
                                 PathText(target, target.dependent[i]))
          IN  /\ result'.tag \in { "Ok", "TooFewLines", "TooManyLines",
                                   "FileUnchanged" }
              /\ result'.tag = "TooFewLines" <=> t < o
              /\ result'.tag = "TooManyLines" <=> t > o
              /\ result'.tag = "FileUnchanged" <=> (t = o /\ same)
              /\ result'.tag = "Ok" <=> (t = o /\ ~same)
              /\ result'.tag = "Ok" <=>
                    (stage' = "validated"
                        /\ request' = [origin |-> origin, target |-> target])
      ]_vars

\* new returned Ok for lists that differ only in their second pair
C5_Witness ==
    /\ op = "new"
    /\ stage = "validated"
    /\ PairCount(request) = 2
    /\ PathEq(OriginPath(request, 1), TargetPath(request, 1))

\* C6: the range of TooManyLines is a range of the target buffer, up to its
\* end, that starts where the first unexpected line starts: the slice is the
\* extra lines and nothing of the expected ones.
C6_TooManyLinesCoversTheExtraLines ==
    [][ (op' = "new" /\ result'.tag = "TooManyLines") =>
          LET n == Len(origin.dependent)
              r == result'.range
          IN  /\ result'.buffer = target.owner
              /\ r.start <= r.end
              /\ r.end = Len(target.owner)
              /\ r.start = substring_range(target, target.dependent[n + 1]).start
      ]_vars

\* C7: confirm_files_exist returns Ok iff every entry exists, and else one
\* label for each entry that does not, in entry order, whose range is the
\* place of that entry's line in the returned buffer.
C7_EveryMissingFileLabelled ==
    op = "confirm_files_exist" =>
        IF result.tag = "Ok"
        THEN \A k \in 1..Len(origin.dependent) :
                exists(fs, PathText(origin, origin.dependent[k]))
        ELSE LET buf == result.buffer
                 ls == lines(buf)
                 text(k) == Slice(buf, ls[k].start, ls[k].start + ls[k].len)
                 missing == { k \in 1..Len(ls) : ~exists(fs, text(k)) }
                 \* the number of missing lines before line k, and itself
                 rank(k) == Cardinality({ m \in missing : m <= k })
             IN  /\ result.tag = "FileDoesNotExist"
                 /\ missing # {}
                 /\ Len(result.labels) = Cardinality(missing)
                 /\ \A k \in missing :
                       result.labels[rank(k)].range
                           = [start |-> ls[k].start, end |-> ls[k].start + ls[k].len]

\* Two entries do not exist, and both are labelled
C7_Witness ==
    /\ op = "confirm_files_exist"
    /\ result.tag = "FileDoesNotExist"
    /\ Len(result.labels) = 2
    /\ Len(lines(result.buffer)) = 3

\* The lines of a text that are not blank: as many as there are characters
\* that are the first one of their line that is not white space
NonBlankLineCount(s) ==
    Cardinality({ i \in 1..Len(s) :
        /\ ~IsWhitespace(s[i])
        /\ \A j \in 1..(i - 1) :
              (\A m \in j..(i - 1) : s[m] # "\n") => IsWhitespace(s[j]) })

\* The list the last parse returned
ParsedList == IF stage = "parsed" THEN origin ELSE target

\* C8: a parsed list has as many entries as its source has lines that are
\* not blank, in the order of the lines.
C8_OneEntryPerNonBlankLine ==
    (op \in { "parse_reader", "parse_walker" } /\ result.tag = "Ok") =>
        /\ Len(ParsedList.dependent) = NonBlankLineCount(source)
        /\ InBufferOrder(ParsedList)

RoundTrip(list) ==
    LET text == as_string(list)
        again == parse_reader(text, TargetBase)
    IN  /\ again.tag = "Ok"
        /\ as_string(again.list) = text

\* C9: the text of a parsed list, in any order the sort leaves it in,
\* parses to a list with the same text.
C9_TextRoundTrip ==
    /\ origin # None => RoundTrip(origin)
    /\ target # None => RoundTrip(target)

\* The text of the chunks with one of two tags, in their order
RECURSIVE TextOf(_, _)
TextOf(chunk_vec, tags) ==
    IF chunk_vec = << >> THEN << >>
    ELSE (IF Head(chunk_vec).tag \in tags THEN Head(chunk_vec).text ELSE << >>)
         \o TextOf(Tail(chunk_vec), tags)

=============================================================================
